---- MODULE Spec2Model ----
(***************************************************************************)
(* Model of scripts/tokenize-samples.py: strip_ansi, extract_tokens and    *)
(* main, run against a small file system (samples/, samples/B.txt,         *)
(* samples/tokens-audit.json).  Text is a sequence of code points.         *)
(***************************************************************************)
EXTENDS Integers, Sequences, FiniteSets

VARIABLES
    samples,        \* kind of the path <root>/samples: "absent" | "dir"
    bfile,          \* kind of samples/B.txt: "absent" | "file" | "dir"
    content,        \* decoded text of samples/B.txt (when it is a file)
    audit,          \* samples/tokens-audit.json: [kind, data]
    pc,             \* position of the run inside main / extract_tokens
    stdout,         \* lines printed so far by this run
    handles,        \* file handles currently open
    status,         \* process exit status (-1 while running)
    fault,          \* exception that ended the run, "none" otherwise
    filetext,       \* extract_tokens: content
    clean_content,  \* extract_tokens: clean_content
    tokens,         \* extract_tokens: tokens
    counter,        \* main: counter (pairs <<token, count>> in insertion order)
    sorted_items,   \* main: sorted_items
    output,         \* main: output
    run,            \* 1 for the first invocation, 2 for the second
    prev            \* what the first invocation left: [stdout, audit, status]

vars == <<samples, bfile, content, audit, pc, stdout, handles, status, fault,
          filetext, clean_content, tokens, counter, sorted_items, output,
          run, prev>>

\* ------------------------------------------------------------------ bounds

\* longest content of samples/B.txt a run is given
MaxLen == 5
\* longest text strip_ansi is applied to on its own
MaxStripLen == 6

\* code points: ESC, " ", "0", ";", "[", "m"
Alphabet == {27, 32, 48, 59, 91, 109}

Strings(n) == UNION {[1..k -> Alphabet] : k \in 0..n}

\* ------------------------------------------------------- regular expressions

\* the class [0-9;] of ANSI_ESCAPE
IsParamChar(c) == c \in (48..57) \cup {59}

\* the class \w, on the ASCII range
IsWordChar(c) == c \in (48..57) \cup (65..90) \cup {95} \cup (97..122)

\* first index >= i of s that is not in [0-9;] (Len(s)+1 when there is none):
\* where the greedy [0-9;]* stops
RECURSIVE SkipParams(_, _)
SkipParams(s, i) ==
    IF i <= Len(s) /\ IsParamChar(s[i]) THEN SkipParams(s, i + 1) ELSE i

\* a variant of the pattern that wants at least one parameter: \x1b\[[0-9;]+m
MatchEndOneOrMore(s, i) ==
    IF i + 1 <= Len(s) /\ s[i] = 27 /\ s[i + 1] = 91
    THEN LET j == SkipParams(s, i + 2)
         IN  IF j > i + 2 /\ j <= Len(s) /\ s[j] = 109 THEN j ELSE 0
    ELSE 0

\* ANSI_ESCAPE matched at position i of s: index of the closing "m", 0 when
\* the pattern does not match there.  No shorter run of [0-9;]* can succeed,
\* as "m" is not in the class.
MatchEnd(s, i) ==
    IF i + 1 <= Len(s) /\ s[i] = 27 /\ s[i + 1] = 91
    THEN LET j == SkipParams(s, i + 2)
         IN  IF j <= Len(s) /\ s[j] = 109 THEN j ELSE 0
    ELSE 0

\* ANSI_ESCAPE.sub('', s) from position i on: one left-to-right pass, each
\* match dropped and the scan resumed after it
RECURSIVE SubFrom(_, _)
SubFrom(s, i) ==
    IF i > Len(s) THEN <<>>
    ELSE LET e == MatchEnd(s, i)
         IN  IF e # 0 THEN SubFrom(s, e + 1)
             ELSE <<s[i]>> \o SubFrom(s, i + 1)

strip_ansi(text) == SubFrom(text, 1)

\* first index >= i of s that is not a word character
RECURSIVE SkipWord(_, _)
SkipWord(s, i) ==
    IF i <= Len(s) /\ IsWordChar(s[i]) THEN SkipWord(s, i + 1) ELSE i

\* a variant that matches lazily, one word character per match: \w+?
RECURSIVE FindAllLazy(_, _)
FindAllLazy(s, i) ==
    IF i > Len(s) THEN <<>>
    ELSE IF IsWordChar(s[i])
         THEN <<SubSeq(s, i, i)>> \o FindAllLazy(s, i + 1)
         ELSE FindAllLazy(s, i + 1)

\* re.findall(r'\w+', s) from position i on: greedy matches, left to right,
\* the scan resumed after each match
RECURSIVE FindAll(_, _)
FindAll(s, i) ==
    IF i > Len(s) THEN <<>>
    ELSE IF IsWordChar(s[i])
         THEN LET j == SkipWord(s, i)
              IN  <<SubSeq(s, i, j - 1)>> \o FindAll(s, j)
         ELSE FindAll(s, i + 1)

\* ------------------------------------------------------------------ Counter

\* index of token t among the keys of counter c, 0 when absent
RECURSIVE KeyIndex(_, _, _)
KeyIndex(c, t, i) ==
    IF i > Len(c) THEN 0
    ELSE IF c[i][1] = t THEN i ELSE KeyIndex(c, t, i + 1)

\* a variant that records presence only: the count stays 1
CountOnce(c, t) ==
    LET k == KeyIndex(c, t, 1)
    IN  IF k = 0 THEN Append(c, <<t, 1>>) ELSE c

\* Counter: c[t] += 1, a missing key starting at 0 and new keys going last
CountOne(c, t) ==
    LET k == KeyIndex(c, t, 1)
    IN  IF k = 0 THEN Append(c, <<t, 1>>)
        ELSE [c EXCEPT ![k] = <<t, c[k][2] + 1>>]

\* Counter(toks): the tokens counted left to right
RECURSIVE CounterOf(_, _)
CounterOf(toks, i) ==
    IF i = 0 THEN <<>> ELSE CountOne(CounterOf(toks, i - 1), toks[i])

\* --------------------------------------------------------------------- sort

\* str < str: by code point, a proper prefix first
RECURSIVE StrLess(_, _)
StrLess(a, b) ==
    IF Len(b) = 0 THEN FALSE
    ELSE IF Len(a) = 0 THEN TRUE
    ELSE IF a[1] # b[1] THEN a[1] < b[1]
    ELSE StrLess(Tail(a), Tail(b))

\* a variant of the key that forgets the negation: (x[1], x[0])
KeyLessAscending(x, y) ==
    \/ x[2] < y[2]
    \/ x[2] = y[2] /\ StrLess(x[1], y[1])

\* key(x) < key(y) for key = lambda x: (-x[1], x[0])
KeyLess(x, y) ==
    \/ (0 - x[2]) < (0 - y[2])
    \/ (0 - x[2]) = (0 - y[2]) /\ StrLess(x[1], y[1])

\* x put into the sorted list l after every element whose key is not greater
RECURSIVE InsertSorted(_, _)
InsertSorted(l, x) ==
    IF l = <<>> THEN <<x>>
    ELSE IF KeyLess(x, l[1]) THEN <<x>> \o l
    ELSE <<l[1]>> \o InsertSorted(Tail(l), x)

\* sorted(items, key=...): stable, ascending in the key
RECURSIVE Sorted(_, _)
Sorted(items, i) ==
    IF i = 0 THEN <<>> ELSE InsertSorted(Sorted(items, i - 1), items[i])

\* -------------------------------------------------------------- file system

AbsentFile == [kind |-> "absent", data |-> <<>>]
\* a tokens-audit.json left by some earlier use of the directory
StaleFile  == [kind |-> "file", data |-> <<[token |-> <<109>>, count |-> 7]>>]
\* a directory sitting at the path of tokens-audit.json
DirEntry   == [kind |-> "dir", data |-> <<>>]

NoRun == [stdout |-> <<>>, audit |-> AbsentFile, status |-> -1]

\* the locals of main and extract_tokens before they are assigned
LocalsCleared ==
    /\ filetext = <<>>
    /\ clean_content = <<>>
    /\ tokens = <<>>
    /\ counter = <<>>
    /\ sorted_items = <<>>
    /\ output = <<>>

Init ==
    /\ samples \in {"absent", "dir"}
    /\ bfile \in (IF samples = "dir" THEN {"absent", "file", "dir"} ELSE {"absent"})
    /\ content \in (IF bfile = "file" THEN Strings(MaxLen) ELSE {<<>>})
    /\ audit \in (IF samples = "dir" THEN {AbsentFile, StaleFile, DirEntry}
                  ELSE {AbsentFile})
    /\ pc = "check_dir"
    /\ stdout = <<>>
    /\ handles = {}
    /\ status = -1
    /\ fault = "none"
    /\ LocalsCleared
    /\ run = 1
    /\ prev = NoRun

fs    == <<samples, bfile, content>>
local == <<filetext, clean_content, tokens, counter, sorted_items, output>>
twice == <<run, prev>>

\* the run ends by an exception nobody catches: traceback, exit status 1
Raise(exc) ==
    /\ pc' = "done"
    /\ status' = 1
    /\ fault' = exc

\* --------------------------------------------------------------------- main

\* if not samples_dir.exists(): print(...); return 1
CheckDir ==
    /\ pc = "check_dir"
    /\ IF samples = "absent"
       THEN /\ stdout' = Append(stdout, <<"error_dir">>)
            /\ status' = 1
            /\ pc' = "done"
       ELSE /\ pc' = "check_file"
            /\ UNCHANGED <<stdout, status>>
    /\ UNCHANGED <<fs, audit, handles, fault, local, twice>>

\* a variant that reports the missing file and goes on
CheckFileNoReturn ==
    /\ pc = "check_file"
    /\ IF bfile = "absent"
       THEN stdout' = Append(stdout, <<"error_file">>)
       ELSE UNCHANGED stdout
    /\ pc' = "print_header"
    /\ UNCHANGED <<fs, audit, handles, status, fault, local, twice>>

\* if not filepath.exists(): print(...); return 1
\* Path.exists() is true of a directory as of a regular file
CheckFile ==
    /\ pc = "check_file"
    /\ IF bfile = "absent"
       THEN /\ stdout' = Append(stdout, <<"error_file">>)
            /\ status' = 1
            /\ pc' = "done"
       ELSE /\ pc' = "print_header"
            /\ UNCHANGED <<stdout, status>>
    /\ UNCHANGED <<fs, audit, handles, fault, local, twice>>

\* print(f"Extracting tokens from {filepath.name}...\n")
PrintHeader ==
    /\ pc = "print_header"
    /\ stdout' = Append(stdout, <<"header">>)
    /\ pc' = "open_in"
    /\ UNCHANGED <<fs, audit, handles, status, fault, local, twice>>

\* extract_tokens: open(filepath, 'r', ...) raises on a directory or a
\* missing file
OpenInput ==
    /\ pc = "open_in"
    /\ IF bfile = "file"
       THEN /\ handles' = handles \cup {"in"}
            /\ pc' = "read"
            /\ UNCHANGED <<status, fault>>
       ELSE /\ Raise(IF bfile = "dir" THEN "IsADirectoryError"
                     ELSE "FileNotFoundError")
            /\ UNCHANGED handles
    /\ UNCHANGED <<fs, audit, stdout, local, twice>>

\* extract_tokens: content = f.read()
ReadInput ==
    /\ pc = "read"
    /\ filetext' = content
    /\ pc' = "close_in"
    /\ UNCHANGED <<fs, audit, stdout, handles, status, fault, clean_content,
                   tokens, counter, sorted_items, output, twice>>

\* a variant without the with block: the handle stays open
CloseInputLeak ==
    /\ pc = "close_in"
    /\ pc' = "tokenize"
    /\ UNCHANGED <<fs, audit, stdout, handles, status, fault, local, twice>>

\* extract_tokens: the with block is left, the input handle closed
CloseInput ==
    /\ pc = "close_in"
    /\ handles' = handles \ {"in"}
    /\ pc' = "tokenize"
    /\ UNCHANGED <<fs, audit, stdout, status, fault, local, twice>>

\* extract_tokens: strip_ansi, re.findall, return Counter(tokens)
Tokenize ==
    /\ pc = "tokenize"
    /\ clean_content' = strip_ansi(filetext)
    /\ tokens' = FindAll(clean_content', 1)
    /\ counter' = CounterOf(tokens', Len(tokens'))
    /\ pc' = "sort"
    /\ UNCHANGED <<fs, audit, stdout, handles, status, fault, filetext,
                   sorted_items, output, twice>>

\* sorted_items = sorted(counter.items(), key=lambda x: (-x[1], x[0]))
Sort ==
    /\ pc = "sort"
    /\ sorted_items' = Sorted(counter, Len(counter))
    /\ pc' = "print_found"
    /\ UNCHANGED <<fs, audit, stdout, handles, status, fault, filetext,
                   clean_content, tokens, counter, output, twice>>

\* a variant that reports the number of tokens, not of unique tokens
PrintFoundAll ==
    /\ pc = "print_found"
    /\ stdout' = Append(stdout, <<"found", Len(tokens)>>)
    /\ pc' = "print_listing"
    /\ UNCHANGED <<fs, audit, handles, status, fault, local, twice>>

\* print(f"Found {len(counter)} unique tokens\n")
PrintFound ==
    /\ pc = "print_found"
    /\ stdout' = Append(stdout, <<"found", Len(counter)>>)
    /\ pc' = "print_listing"
    /\ UNCHANGED <<fs, audit, handles, status, fault, local, twice>>

\* a variant of the listing loop after which the run goes straight to the
\* confirmation line
PrintListingSkipWrite ==
    /\ pc = "print_listing"
    /\ stdout' = stdout \o [i \in 1..Len(sorted_items) |->
                              <<"line", sorted_items[i][2], sorted_items[i][1]>>]
    /\ pc' = "print_written"
    /\ UNCHANGED <<fs, audit, handles, status, fault, local, twice>>

\* for token, count in sorted_items: print(f"{count:4d}x  {token}")
PrintListing ==
    /\ pc = "print_listing"
    /\ stdout' = stdout \o [i \in 1..Len(sorted_items) |->
                              <<"line", sorted_items[i][2], sorted_items[i][1]>>]
    /\ pc' = "build_output"
    /\ UNCHANGED <<fs, audit, handles, status, fault, local, twice>>

\* output = [{"token": token, "count": count} for token, count in sorted_items]
BuildOutput ==
    /\ pc = "build_output"
    /\ output' = [i \in 1..Len(sorted_items) |->
                    [token |-> sorted_items[i][1], count |-> sorted_items[i][2]]]
    /\ pc' = "open_out"
    /\ UNCHANGED <<fs, audit, stdout, handles, status, fault, filetext,
                   clean_content, tokens, counter, sorted_items, twice>>

\* a variant that opens the file for appending: mode 'a'
OpenOutputAppend ==
    /\ pc = "open_out"
    /\ IF audit.kind = "dir"
       THEN /\ Raise("IsADirectoryError")
            /\ UNCHANGED <<audit, handles>>
       ELSE /\ audit' = [kind |-> "file", data |-> audit.data]
            /\ handles' = handles \cup {"out"}
            /\ pc' = "dump"
            /\ UNCHANGED <<status, fault>>
    /\ UNCHANGED <<fs, stdout, local, twice>>

\* open(output_file, 'w'): the file is created or emptied; a directory at
\* that path raises
OpenOutput ==
    /\ pc = "open_out"
    /\ IF audit.kind = "dir"
       THEN /\ Raise("IsADirectoryError")
            /\ UNCHANGED <<audit, handles>>
       ELSE /\ audit' = [kind |-> "file", data |-> <<>>]
            /\ handles' = handles \cup {"out"}
            /\ pc' = "dump"
            /\ UNCHANGED <<status, fault>>
    /\ UNCHANGED <<fs, stdout, local, twice>>

\* json.dump(output, f, indent=2): written at the end of what the file holds
Dump ==
    /\ pc = "dump"
    /\ audit' = [kind |-> "file", data |-> audit.data \o output]
    /\ pc' = "close_out"
    /\ UNCHANGED <<fs, stdout, handles, status, fault, local, twice>>

\* the with block is left, the output handle closed
CloseOutput ==
    /\ pc = "close_out"
    /\ handles' = handles \ {"out"}
    /\ pc' = "print_written"
    /\ UNCHANGED <<fs, audit, stdout, status, fault, local, twice>>

\* print(f"\nFull token list written to {output_file}")
PrintWritten ==
    /\ pc = "print_written"
    /\ stdout' = Append(stdout, <<"written">>)
    /\ pc' = "return"
    /\ UNCHANGED <<fs, audit, handles, status, fault, local, twice>>

\* return 0
Return ==
    /\ pc = "return"
    /\ status' = 0
    /\ pc' = "done"
    /\ UNCHANGED <<fs, audit, stdout, handles, fault, local, twice>>

\* exit(main()) has ended the process; the script is started once more on
\* the file system the first run left
RunAgain ==
    /\ pc = "done"
    /\ run = 1
    /\ run' = 2
    /\ prev' = [stdout |-> stdout, audit |-> audit, status |-> status]
    /\ pc' = "check_dir"
    /\ stdout' = <<>>
    /\ status' = -1
    /\ fault' = "none"
    /\ filetext' = <<>>
    /\ clean_content' = <<>>
    /\ tokens' = <<>>
    /\ counter' = <<>>
    /\ sorted_items' = <<>>
    /\ output' = <<>>
    /\ UNCHANGED <<fs, audit, handles>>

Next ==
    \/ CheckDir
    \/ CheckFile
    \/ PrintHeader
    \/ OpenInput
    \/ ReadInput
    \/ CloseInput
    \/ Tokenize
    \/ Sort
    \/ PrintFound
    \/ PrintListing
    \/ BuildOutput
    \/ OpenOutput
    \/ Dump
    \/ CloseOutput
    \/ PrintWritten
    \/ Return
    \/ RunAgain

Spec == Init /\ [][Next]_vars

\* ------------------------------------------------- strip_ansi on its own

InitStrip ==
    /\ samples = "dir"
    /\ bfile = "file"
    /\ content \in Strings(MaxStripLen)
    /\ audit = AbsentFile
    /\ pc = "strip_call"
    /\ stdout = <<>>
    /\ handles = {}
    /\ status = -1
    /\ fault = "none"
    /\ LocalsCleared
    /\ run = 1
    /\ prev = NoRun

\* clean_content = strip_ansi(content), applied to any text
StripCall ==
    /\ pc = "strip_call"
    /\ clean_content' = strip_ansi(content)
    /\ pc' = "strip_ret"
    /\ UNCHANGED <<fs, audit, stdout, handles, status, fault, filetext,
                   tokens, counter, sorted_items, output, twice>>

NextStrip == StripCall

SpecStrip == InitStrip /\ [][NextStrip]_vars

\* =================================================================== claims

\* positions of main after extract_tokens has returned ("sort" is the
\* position right after the return, where its result is examined)
AfterTokenize == {"sort", "print_found", "print_listing", "build_output",
                  "open_out", "dump", "close_out", "print_written", "return"}

\* positions of main after sorted_items has been assigned
AfterSort == AfterTokenize \ {"sort"}

\* s[i..j] is an escape sequence: ESC "[", parameters from 0-9 and ";", "m"
IsSGR(s, i, j) ==
    /\ 1 <= i /\ i + 2 <= j /\ j <= Len(s)
    /\ s[i] = 27 /\ s[i + 1] = 91 /\ s[j] = 109
    /\ \A k \in (i + 2)..(j - 1) : s[k] \in (48..57) \cup {59}

HasSGR(s) == \E i \in 1..Len(s), j \in 1..Len(s) : IsSGR(s, i, j)

\* position k of s lies inside an escape sequence of s
InSGR(s, k) == \E i \in 1..k, j \in k..Len(s) : IsSGR(s, i, j)

\* s without the positions that lie inside an escape sequence of s
WithoutSGR(s) ==
    LET idx == SelectSeq([k \in 1..Len(s) |-> k], LAMBDA k : ~InSGR(s, k))
    IN  [n \in 1..Len(idx) |-> s[idx[n]]]

\* C1 as stated: the result of strip_ansi contains no escape sequence (and is
\* the input with the escape sequences of the input deleted).
C1_AsStated ==
    pc = "strip_ret" =>
        /\ ~HasSGR(clean_content)
        /\ clean_content = WithoutSGR(content)

\* C1 amended: the result of strip_ansi is the input with every escape
\* sequence of the input deleted and every other character kept in order;
\* nothing is said of sequences the deletion itself brings together.
C1_StripDeletesInputSequences ==
    pc = "strip_ret" => clean_content = WithoutSGR(content)

\* an input with an escape sequence whose result still holds one
C1_Witness ==
    /\ pc = "strip_ret"
    /\ HasSGR(content)
    /\ HasSGR(clean_content)

\* a is a proper prefix of b, equal to b, or smaller at the first difference
LexLeq(a, b) ==
    \/ /\ Len(a) <= Len(b)
       /\ \A k \in 1..Len(a) : a[k] = b[k]
    \/ \E k \in 1..Len(a) :
         /\ k <= Len(b)
         /\ \A n \in 1..(k - 1) : a[n] = b[n]
         /\ a[k] < b[k]

\* pairs <<token, count>>: count descending, ties by token ascending
Ordered(l) ==
    \A i \in 1..Len(l), j \in 1..Len(l) :
        i < j => \/ l[i][2] > l[j][2]
                 \/ l[i][2] = l[j][2] /\ LexLeq(l[i][1], l[j][1])

IsListingLine(ln) == ln[1] = "line"

\* the pairs of the listing printed so far
Listing == LET ls == SelectSeq(stdout, IsListingLine)
           IN  [i \in 1..Len(ls) |-> <<ls[i][3], ls[i][2]>>]

\* the pairs of the entries of tokens-audit.json
Written == [i \in 1..Len(audit.data) |->
              <<audit.data[i].token, audit.data[i].count>>]

\* C2: the Sorted Report, the listing printed from it and the JSON written
\* from it are ordered by count descending, ties by token ascending.
C2_SortedReportOrdered ==
    /\ pc \in AfterSort => Ordered(sorted_items)
    /\ Ordered(Listing)
    /\ (pc = "done" /\ status = 0) => Ordered(Written)

\* a finished run whose report puts a later, more frequent token first
C2_Witness ==
    /\ pc = "done" /\ status = 0 /\ run = 1
    /\ Len(sorted_items) >= 2
    /\ sorted_items # counter
    /\ sorted_items[1][2] > sorted_items[2][2]
    /\ Listing = sorted_items

RECURSIVE SumCounts(_, _)
SumCounts(c, i) == IF i = 0 THEN 0 ELSE c[i][2] + SumCounts(c, i - 1)

Occurrences(toks, t) == Cardinality({n \in 1..Len(toks) : toks[n] = t})

\* C3: in the table extract_tokens returns the counts sum to the number of
\* tokens, every key is non-empty, and each key's count is the number of
\* times the token occurs in the token sequence.
C3_FrequencyTable ==
    pc = "sort" =>
        /\ SumCounts(counter, Len(counter)) = Len(tokens)
        /\ \A i \in 1..Len(counter) :
             /\ counter[i][1] # <<>>
             /\ counter[i][2] = Occurrences(tokens, counter[i][1])
             /\ \A j \in 1..Len(counter) : counter[j][1] = counter[i][1] => j = i

\* a table with a repeated token and another one
C3_Witness ==
    /\ pc = "sort"
    /\ Len(tokens) = 3
    /\ Len(counter) = 2

\* the run is on one of the two failure paths of main
FailurePath == samples = "absent" \/ bfile = "absent"

\* C4: on the two failure paths the run prints one error message and nothing
\* else, returns 1, and tokens-audit.json is neither created nor modified.
C4_FailurePathsWriteNothing ==
    /\ [](pc = "done" /\ FailurePath =>
            /\ status = 1
            /\ fault = "none"
            /\ stdout = IF samples = "absent" THEN << <<"error_dir">> >>
                        ELSE << <<"error_file">> >>)
    /\ [][FailurePath => audit' = audit]_vars

\* B.txt missing beside an older tokens-audit.json, the run over
C4_Witness ==
    /\ pc = "done"
    /\ samples = "dir" /\ bfile = "absent"
    /\ audit = StaleFile
    /\ stdout # <<>>

\* C5: a run ends with status 1 exactly when the samples directory or the
\* input file is missing; otherwise it ends with status 0 and the output
\* file written, and no run ends by an unhandled fault.
C5_OnlyTwoFailures ==
    pc = "done" =>
        /\ status = 1 <=> FailurePath
        /\ ~FailurePath => (status = 0 /\ audit = [kind |-> "file", data |-> output])
        /\ fault = "none"

\* C6: a second run on the file system the first one left prints the same
\* report and leaves the same tokens-audit.json.
C6_Idempotent ==
    (run = 2 /\ pc = "done") =>
        /\ stdout = prev.stdout
        /\ audit = prev.audit
        /\ status = prev.status

\* two successful runs over a file with several tokens
C6_Witness ==
    /\ run = 2 /\ pc = "done" /\ status = 0
    /\ prev.status = 0
    /\ Len(output) >= 2

\* i starts a maximal run of word characters of s
RunStart(s, i) ==
    /\ IsWordChar(s[i])
    /\ i = 1 \/ ~IsWordChar(s[i - 1])

\* j ends a maximal run of word characters of s
RunEnd(s, j) ==
    /\ IsWordChar(s[j])
    /\ j = Len(s) \/ ~IsWordChar(s[j + 1])

RunStarts(s) == {i \in 1..Len(s) : RunStart(s, i)}

\* the n-th run start, counted from the left
NthStart(s, n) ==
    CHOOSE i \in RunStarts(s) : Cardinality({x \in RunStarts(s) : x < i}) = n - 1

\* the end of the run that starts at i
EndOf(s, i) ==
    CHOOSE j \in i..Len(s) : RunEnd(s, j) /\ \A k \in i..j : IsWordChar(s[k])

\* C7: the token sequence is, in order, the maximal runs of word characters
\* of the Clean Content: one token per run, duplicates kept.
C7_TokensAreMaximalRuns ==
    pc = "sort" =>
        /\ Len(tokens) = Cardinality(RunStarts(clean_content))
        /\ \A n \in 1..Len(tokens) :
             LET i == NthStart(clean_content, n)
             IN  tokens[n] = SubSeq(clean_content, i, EndOf(clean_content, i))

\* a Clean Content with a run of two word characters, twice
C7_Witness ==
    /\ pc = "sort"
    /\ Len(tokens) = 2
    /\ Len(tokens[1]) = 2
    /\ tokens[1] = tokens[2]

HeaderPrinted == \E i \in 1..Len(stdout) : stdout[i] = <<"header">>

\* the file system lets the run succeed
Succeeds == samples = "dir" /\ bfile = "file" /\ audit.kind # "dir"

\* C8 as stated: in a successful run no report text, the header line
\* included, is printed before the file has been read and aggregated.
C8_AsStated ==
    (Succeeds /\ HeaderPrinted) => pc \in AfterTokenize \cup {"done"}

\* the steps of main, in the order of the code
Rank(p) ==
    CASE p = "check_dir"     -> 1
      [] p = "check_file"    -> 2
      [] p = "print_header"  -> 3
      [] p = "open_in"       -> 4
      [] p = "read"          -> 5
      [] p = "close_in"      -> 6
      [] p = "tokenize"      -> 7
      [] p = "sort"          -> 8
      [] p = "print_found"   -> 9
      [] p = "print_listing" -> 10
      [] p = "build_output"  -> 11
      [] p = "open_out"      -> 12
      [] p = "dump"          -> 13
      [] p = "close_out"     -> 14
      [] p = "print_written" -> 15
      [] p = "return"        -> 16
      [] OTHER               -> 17

ListingLines ==
    [i \in 1..Len(sorted_items) |->
        <<"line", sorted_items[i][2], sorted_items[i][1]>>]

\* what a run has printed when it stands at p
PrintedAt(p) ==
    IF Rank(p) <= 3 THEN <<>>
    ELSE IF Rank(p) <= 9 THEN << <<"header">> >>
    ELSE IF Rank(p) = 10 THEN << <<"header">>, <<"found", Len(counter)>> >>
    ELSE IF Rank(p) <= 15
         THEN << <<"header">>, <<"found", Len(counter)>> >> \o ListingLines
    ELSE << <<"header">>, <<"found", Len(counter)>> >> \o ListingLines
             \o << <<"written">> >>

\* C8 amended: the steps run in the order directory check, file check,
\* header line, read and aggregation, unique-token count, listing, output
\* file, confirmation line, return 0; only the header line is printed before
\* the file is read and aggregated, and the output file is written after the
\* aggregation and the listing and before the confirmation line.
C8_StepsInSequence ==
    /\ [](Succeeds => stdout = PrintedAt(IF pc = "done" THEN "return" ELSE pc))
    /\ [](Succeeds /\ pc = "done" =>
             status = 0 /\ audit = [kind |-> "file", data |-> output])
    /\ [][(Succeeds /\ pc # "done") => Rank(pc') = Rank(pc) + 1]_vars
    /\ [][audit' # audit => pc \in {"open_out", "dump"}]_vars

\* a successful first run that printed a listing of several lines
C8_Witness ==
    /\ pc = "done" /\ status = 0 /\ run = 1
    /\ Len(Listing) >= 2
    /\ audit.data # <<>>

\* C9: at most one file handle is open at any time, the input handle only
\* around the read, the output handle only around the write, and none when
\* the run has ended.
C9_OneHandleAtATime ==
    /\ Cardinality(handles) <= 1
    /\ "in" \in handles => pc \in {"read", "close_in"}
    /\ "out" \in handles => pc \in {"dump", "close_out"}
    /\ pc = "done" => handles = {}

\* the output handle open, the input read before
C9_Witness ==
    /\ handles = {"out"}
    /\ filetext # <<>>

FoundLines == SelectSeq(stdout, LAMBDA ln : ln[1] = "found")

\* C10: after a successful run tokens-audit.json holds one entry per token
\* of the table, with the table's count (at least 1), and as many entries as
\* the "Found N unique tokens" line says and as listing lines were printed.
C10_OutputRecordMatchesTable ==
    (pc = "done" /\ status = 0) =>
        /\ audit.kind = "file"
        /\ \A i \in 1..Len(audit.data), j \in 1..Len(audit.data) :
             audit.data[i].token = audit.data[j].token => i = j
        /\ {audit.data[i].token : i \in 1..Len(audit.data)}
             = {counter[i][1] : i \in 1..Len(counter)}
        /\ \A i \in 1..Len(audit.data) :
             /\ audit.data[i].count >= 1
             /\ \E k \in 1..Len(counter) :
                  counter[k] = <<audit.data[i].token, audit.data[i].count>>
        /\ FoundLines = << <<"found", Len(audit.data)>> >>
        /\ Len(Listing) = Len(audit.data)

\* a successful run over a file with a repeated token
C10_Witness ==
    /\ pc = "done" /\ status = 0
    /\ Len(audit.data) >= 2
    /\ Len(tokens) > Len(counter)

====
